---- MODULE Spec2Model ----
(***************************************************************************)
(* Image Fetcher (src/lib.py): the interactive loop of main(), the fetch   *)
(* of download_image() and the filename resolution it performs, as a state *)
(* machine.  Strings are sequences of one-character strings, the           *)
(* destination directory is a function from paths to file contents, and    *)
(* standard output is the sequence of messages printed since the last      *)
(* prompt was answered.                                                    *)
(***************************************************************************)
EXTENDS Integers, Sequences, FiniteSets, TLC

\* ------------------------------------------------------------------ bounds

\* download_image calls made in one run of the loop
MaxCalls == 2
\* chunks iter_content yields for one response body
MaxChunks == 2
\* download_image calls made in a run over the wider range of names
MaxNameCalls == 1

\* ------------------------------------------------------------- characters

UpperLetters ==
    <<"A","B","C","D","E","F","G","H","I","J","K","L","M",
      "N","O","P","Q","R","S","T","U","V","W","X","Y","Z">>

LowerLetters ==
    <<"a","b","c","d","e","f","g","h","i","j","k","l","m",
      "n","o","p","q","r","s","t","u","v","w","x","y","z">>

Range(s) == {s[i] : i \in DOMAIN s}

Digits == {"0","1","2","3","4","5","6","7","8","9"}

AsciiAlnum == Range(UpperLetters) \cup Range(LowerLetters) \cup Digits

\* One character outside ASCII for which str.isalnum() is true
\* (U+00E9, LATIN SMALL LETTER E WITH ACUTE).
EAcute == "e-acute"

NonAsciiAlnum == {EAcute}

\* str.isspace(): the characters str.strip() and str.rstrip() remove
Whitespace == {" ", "\t"}

\* str.isalnum() of one character
IsAlnum(c) == c \in AsciiAlnum \cup NonAsciiAlnum

\* str.lower() of one character
LowerChar(c) ==
    IF \E i \in 1..26 : UpperLetters[i] = c
    THEN LowerLetters[CHOOSE i \in 1..26 : UpperLetters[i] = c]
    ELSE c

\* str.lower()
Lower(s) == [i \in 1..Len(s) |-> LowerChar(s[i])]

\* ---------------------------------------------------------------- strings

Contains(s, c) == \E i \in 1..Len(s) : s[i] = c

\* s[from:] (from is 1-based)
From(s, from) == SubSeq(s, from, Len(s))

\* str.startswith
StartsWith(s, p) == Len(p) <= Len(s) /\ SubSeq(s, 1, Len(p)) = p

\* str.endswith
EndsWith(s, p) ==
    Len(p) <= Len(s) /\ SubSeq(s, Len(s) - Len(p) + 1, Len(s)) = p

\* str.find(c): 1-based index of the first c, 0 when there is none
Find(s, c) ==
    IF Contains(s, c)
    THEN CHOOSE i \in 1..Len(s) : s[i] = c /\ \A j \in 1..(i - 1) : s[j] # c
    ELSE 0

\* str.rfind(c): 1-based index of the last c, 0 when there is none
RFind(s, c) ==
    IF Contains(s, c)
    THEN CHOOSE i \in 1..Len(s) : s[i] = c /\ \A j \in (i + 1)..Len(s) : s[j] # c
    ELSE 0

\* sub in s
ContainsSub(s, sub) ==
    \E i \in 1..(Len(s) - Len(sub) + 1) : SubSeq(s, i, i + Len(sub) - 1) = sub

\* s.split(sub)[-1]: what follows the last occurrence of sub (s when none)
AfterLast(s, sub) ==
    IF ContainsSub(s, sub)
    THEN LET i == CHOOSE k \in 1..(Len(s) - Len(sub) + 1) :
                    /\ SubSeq(s, k, k + Len(sub) - 1) = sub
                    /\ \A m \in (k + 1)..(Len(s) - Len(sub) + 1) :
                          SubSeq(s, m, m + Len(sub) - 1) # sub
         IN  From(s, i + Len(sub))
    ELSE s

\* s.split(c)[0]: what precedes the first c (s when none)
BeforeFirst(s, c) == IF Contains(s, c) THEN SubSeq(s, 1, Find(s, c) - 1) ELSE s

RECURSIVE LStrip(_, _)
\* str.lstrip(chars)
LStrip(s, chars) ==
    IF s # <<>> /\ s[1] \in chars THEN LStrip(Tail(s), chars) ELSE s

RECURSIVE RStripChars(_, _)
\* str.rstrip(chars)
RStripChars(s, chars) ==
    IF s # <<>> /\ s[Len(s)] \in chars
    THEN RStripChars(SubSeq(s, 1, Len(s) - 1), chars)
    ELSE s

\* str.strip(chars)
StripChars(s, chars) == RStripChars(LStrip(s, chars), chars)

\* str.strip()
Strip(s) == StripChars(s, Whitespace)

\* str.rstrip()
RStrip(s) == RStripChars(s, Whitespace)

RECURSIVE Decimal(_)
\* str(n) of a non-negative integer, as f"{counter}" formats it
Decimal(n) ==
    LET d == <<"0","1","2","3","4","5","6","7","8","9">>[(n % 10) + 1]
    IN  IF n < 10 THEN <<d>> ELSE Decimal(n \div 10) \o <<d>>

\* ------------------------------------------------------- library functions

\* os.path.join(a, b) on POSIX
Join(a, b) ==
    IF b # <<>> /\ b[1] = "/" THEN b
    ELSE IF a = <<>> \/ a[Len(a)] = "/" THEN a \o b
    ELSE a \o <<"/">> \o b

\* os.path.splitext(p) on POSIX: <<root, ext>>; the extension starts at the
\* last dot of the last path component, leading dots of it not counted
SplitExt(p) ==
    LET sepIndex == RFind(p, "/")
        dotIndex == RFind(p, ".")
    IN  IF /\ dotIndex > sepIndex
           /\ \E k \in (sepIndex + 1)..(dotIndex - 1) : p[k] # "."
        THEN <<SubSeq(p, 1, dotIndex - 1), From(p, dotIndex)>>
        ELSE <<p, <<>>>>

\* urlparse(url).path of scheme://netloc/path?query#fragment (no ;params):
\* the netloc ends at the first "/", "?" or "#" after the "//"
UrlPath(url) ==
    LET noQuery == BeforeFirst(BeforeFirst(url, "#"), "?")
        rest == From(noQuery, Find(noQuery, ":") + 3)
        slash == Find(rest, "/")
    IN  IF slash = 0 THEN <<>> ELSE From(rest, slash)

\* The percent escapes urllib.parse.unquote decodes to one ASCII character,
\* as <<hex digit, hex digit>> |-> character
Escapes == (<<"2","0">> :> " ") @@ (<<"2","F">> :> "/") @@ (<<"2","4">> :> "$")

RECURSIVE Unquote(_)
\* urllib.parse.unquote: %XX decoded, anything else kept
Unquote(s) ==
    IF s = <<>> THEN <<>>
    ELSE IF s[1] = "%" /\ Len(s) >= 3 /\ <<s[2], s[3]>> \in DOMAIN Escapes
         THEN <<Escapes[<<s[2], s[3]>>]>> \o Unquote(From(s, 4))
         ELSE <<s[1]>> \o Unquote(Tail(s))

\* mimetypes.guess_extension(type): <<>> stands for None
GuessExtension(type) ==
    CASE type = <<"i","m","a","g","e","/","p","n","g">> -> <<".","p","n","g">>
      [] type = <<"i","m","a","g","e","/","j","p","e","g">> -> <<".","j","p","g">>
      [] type = <<"t","e","x","t","/","h","t","m","l">> -> <<".","h","t","m","l">>
      [] OTHER -> <<>>

\* datetime.now().strftime("%Y%m%d_%H%M%S"): the clock readings of the run
Timestamps == {<<"2","0","2","4","0","1","3","1","_","2","3","5","9","5","9">>}

\* ------------------------------------------------------------ src/lib.py

\* directory_name of main()
directory_name == <<"F","e","t","c","h","e","d","_","I","m","a","g","e","s">>

\* extract_filename(url), reading the clock as ts
extract_filename(url, ts) ==
    LET path == Unquote(UrlPath(url))
        filename == From(path, RFind(path, "/") + 1)
    IN  IF path # <<>> /\ Contains(path, "/") /\ filename # <<>> /\ Contains(filename, ".")
        THEN filename
        ELSE <<"i","m","a","g","e","_">> \o ts \o <<".","j","p","g">>

\* content_type.startswith('image/')
IsImageType(content_type) == StartsWith(content_type, <<"i","m","a","g","e","/">>)

\* IsAffirmative with "anything but n" taken for a yes
IsAffirmative_DefaultYes(answer) == Lower(answer) # <<"n">>

\* confirm == 'y', confirm the lower-cased answer
IsAffirmative(answer) == Lower(answer) = <<"y">>

\* 'filename=' in content_disposition
HasDispositionName(content_disposition) ==
    ContainsSub(content_disposition, <<"f","i","l","e","n","a","m","e","=">>)

\* The else branch of "Get filename": the URL's name with the extension the
\* content type implies
NameFromUrl(url, content_type, ts) ==
    LET filename == extract_filename(url, ts)
        ext == GuessExtension(BeforeFirst(content_type, ";"))
    IN  IF ext # <<>> /\ ~EndsWith(filename, ext)
        THEN IF Contains(filename, ".")
             THEN BeforeFirst(filename, ".") \o ext
             ELSE filename \o ext
        ELSE filename

\* "Get filename": from content-disposition, else from the URL
GetFilename(url, content_type, content_disposition, ts) ==
    IF HasDispositionName(content_disposition)
    THEN StripChars(AfterLast(content_disposition, <<"f","i","l","e","n","a","m","e","=">>), {"\"", "'"})
    ELSE NameFromUrl(url, content_type, ts)

\* The characters kept besides the alphanumeric ones
SafePunctuation == {" ", "-", "_", "."}

RECURSIVE KeepSafe(_)
\* "".join(c for c in filename if c.isalnum() or c in (' ', '-', '_', '.'))
KeepSafe(filename) ==
    IF filename = <<>> THEN <<>>
    ELSE (IF IsAlnum(filename[1]) \/ filename[1] \in SafePunctuation
          THEN <<filename[1]>> ELSE <<>>) \o KeepSafe(Tail(filename))

\* Sanitize without the .rstrip()
Sanitize_NoRStrip(filename) == KeepSafe(filename)

\* The comprehension above, then .rstrip()
Sanitize(filename) == RStrip(KeepSafe(filename))

\* "Ensure filename is safe", reading the clock as ts
SafeFilename(filename, ts) ==
    IF Sanitize(filename) = <<>> THEN <<"i","m","a","g","e","_">> \o ts ELSE Sanitize(filename)

\* PathExists with the existence test left out
PathExists_Never(d, save_path) == FALSE

\* os.path.exists(save_path) in the directory listing d
PathExists(d, save_path) == save_path \in DOMAIN d

\* SuffixedPath with the suffix put after the extension
SuffixedPath_AfterExtension(base_name, counter, extension) ==
    base_name \o extension \o <<"_">> \o Decimal(counter)

\* f"{base_name}_{counter}{extension}"
SuffixedPath(base_name, counter, extension) ==
    base_name \o <<"_">> \o Decimal(counter) \o extension

\* IsQuitCommand without the .lower()
IsQuitCommand_CaseSensitive(url) == url \in {<<"q","u","i","t">>, <<"e","x","i","t">>, <<"q">>}

\* url.lower() in ['quit', 'exit', 'q']
IsQuitCommand(url) == Lower(url) \in {<<"q","u","i","t">>, <<"e","x","i","t">>, <<"q">>}

\* HasHttpScheme comparing without regard to case
HasHttpScheme_AnyCase(url) ==
    StartsWith(Lower(url), <<"h","t","t","p",":","/","/">>) \/ StartsWith(Lower(url), <<"h","t","t","p","s",":","/","/">>)

\* url.startswith(('http://', 'https://'))
HasHttpScheme(url) == StartsWith(url, <<"h","t","t","p",":","/","/">>) \/ StartsWith(url, <<"h","t","t","p","s",":","/","/">>)

\* ------------------------------------------------------------ environment

\* What the operator may type at the "Enter image URL" prompt
Lines ==
    { <<"h","t","t","p",":","/","/","h","/","c","a","t",".","p","n","g">>,
      <<" ","h","t","t","p","s",":","/","/","h","/","m","y",".","v","2",".","t","x","t","?","s","=","1"," ">>,
      <<>>,
      <<" ","\t">>,
      <<"q","u","i","t">>,
      <<" ","Q"," ">>,
      <<"E","x","i","t">>,
      <<"f","t","p",":","/","/","h","/","c","a","t",".","p","n","g">>,
      <<"H","t","t","p",":","/","/","h","/","c","a","t",".","p","n","g">> }

\* The URLs typed when the subject is how a file gets its name
NameLines ==
    { <<>>,
      <<"f","t","p",":","/","/","h","/","c","a","t",".","p","n","g">>,
      <<"h","t","t","p",":","/","/","h","/","c","a","t",".","p","n","g">>,
      <<" ","h","t","t","p","s",":","/","/","h","/","m","y",".","v","2",".","t","x","t","?","s","=","1"," ">>,
      <<"h","t","t","p",":","/","/","h","/",EAcute,"%","2","4","%","2","0",".","p","n","g">>,
      <<"h","t","t","p",":","/","/","h","/","d","i","r","/">>,
      <<"h","t","t","p",":","/","/","h","/","x">>,
      <<"q","u","i","t">> }

\* What the operator may type at the "continue anyway?" prompt
Answers == { <<"y">>, <<"Y">>, <<"n">>, <<>>, <<"y","e","s">> }

\* The content-type and content-disposition headers a server may send with a
\* 2xx response (<<>>: the header is absent, headers.get gives '')
Responses ==
    { [content_type |-> <<"i","m","a","g","e","/","p","n","g">>, content_disposition |-> <<>>],
      [content_type |-> <<"t","e","x","t","/","h","t","m","l",";"," ","c","h","a","r","s","e","t","=","u","t","f","-","8">>, content_disposition |-> <<>>],
      [content_type |-> <<"i","m","a","g","e","/","j","p","e","g">>,
       content_disposition |-> <<"a","t","t","a","c","h","m","e","n","t",";"," ","f","i","l","e","n","a","m","e","=","\"","c","a","t",".","p","n","g","\"">>] }

\* The headers sent when the subject is how a file gets its name
NameResponses ==
    Responses \cup
    { [content_type |-> <<>>, content_disposition |-> <<>>],
      [content_type |-> <<"i","m","a","g","e","/","p","n","g">>,
       content_disposition |-> <<"i","n","l","i","n","e",";"," ","f","i","l","e","n","a","m","e","=","'","a","/","b","$",".","g","i","f"," ","\t","'">>],
      [content_type |-> <<"t","e","x","t","/","h","t","m","l">>,
       content_disposition |-> <<"a","t","t","a","c","h","m","e","n","t",";"," ","f","i","l","e","n","a","m","e","=","\"","/","\"">>] }

\* The chunks iter_content may yield: a zero-length one and one of one byte
Chunks == { <<>>, <<7>> }

EmptyDir == [p \in {} |-> <<>>]

\* The destination directory as earlier runs may have left it
InitialDisks ==
    { EmptyDir,
      (Join(directory_name, <<"c","a","t",".","p","n","g">>) :> <<9>>)
         @@ (Join(directory_name, <<"c","a","t","_","1",".","p","n","g">>) :> <<>>) }

\* ------------------------------------------------------------- exceptions

\* The classes an exception raised in download_image is an instance of
\* (requests.exceptions.RequestException derives from IOError, which is OSError)
Mro(e) ==
    CASE e \in {"ConnectionError", "HTTPError", "Timeout",
                "TooManyRedirects", "ChunkedEncodingError"}
           -> {e, "RequestException", "IOError", "Exception"}
      [] e = "OSError" -> {"IOError", "Exception"}
      [] OTHER -> {e, "Exception"}

\* The except clauses of download_image, in the order they are tried
ExceptClauses ==
    << [class |-> "RequestException", kind |-> "Network error"],
       [class |-> "HTTPError", kind |-> "HTTP error"],
       [class |-> "Timeout", kind |-> "Request timed out"],
       [class |-> "TooManyRedirects", kind |-> "Too many redirects"],
       [class |-> "IOError", kind |-> "File system error"],
       [class |-> "Exception", kind |-> "Unexpected error"] >>

\* The first clause that matches e handles it
HandlerOf(e) ==
    CHOOSE i \in DOMAIN ExceptClauses :
        /\ ExceptClauses[i].class \in Mro(e)
        /\ \A j \in 1..(i - 1) : ExceptClauses[j].class \notin Mro(e)

\* What requests.get and raise_for_status may raise
GetErrors == {"ConnectionError", "Timeout", "TooManyRedirects", "HTTPError"}

\* What iter_content and file.write may raise
StreamErrors == {"ChunkedEncodingError", "OSError"}

\* ------------------------------------------------------------------ state

VARIABLES
    loop,                \* "Running" or "Terminated"
    pc,                  \* the statement the process is at
    line,                \* what input() returned at the URL prompt
    url,                 \* main: url
    interrupted,         \* a KeyboardInterrupt has been raised
    gets,                \* requests.get calls since the prompt was answered
    out,                 \* messages printed since the prompt was answered
    ret,                 \* download_image's return value
    raised,              \* the exception download_image caught
    content_type,        \* download_image: content_type
    content_disposition, \* download_image: content_disposition
    answer,              \* what input() returned at the confirmation prompt
    filename,            \* download_image: filename
    save_path,           \* download_image: save_path
    base_name,           \* download_image: base_name
    extension,           \* download_image: extension
    counter,             \* download_image: counter
    nchunks,             \* chunks iter_content has yielded
    disk,                \* the files of the working directory: path -> bytes
    disk0,               \* disk as it was when download_image was entered
    partial,             \* the file the last failed write left, and in which call
    calls                \* download_image calls so far

vars ==
    << loop, pc, line, url, interrupted, gets, out, ret, raised, content_type,
       content_disposition, answer, filename, save_path, base_name, extension,
       counter, nchunks, disk, disk0, partial, calls >>

locals ==
    << ret, raised, content_type, content_disposition, answer, filename,
       save_path, base_name, extension, counter, nchunks >>

Msg(kind) == [kind |-> kind, name |-> <<>>, size |-> 0, path |-> <<>>]

NoPartial == [path |-> <<>>, content |-> <<>>, call |-> 0]

Init ==
    /\ loop = "Running"
    /\ pc = "top"
    /\ line = <<>>
    /\ url = <<>>
    /\ interrupted = FALSE
    /\ gets = 0
    /\ out = <<>>
    /\ ret = "none"
    /\ raised = "none"
    /\ content_type = <<>>
    /\ content_disposition = <<>>
    /\ answer = <<>>
    /\ filename = <<>>
    /\ save_path = <<>>
    /\ base_name = <<>>
    /\ extension = <<>>
    /\ counter = 0
    /\ nchunks = 0
    /\ disk \in InitialDisks
    /\ disk0 = disk
    /\ partial = NoPartial
    /\ calls = 0

ClearLocals ==
    /\ ret' = "none"
    /\ raised' = "none"
    /\ content_type' = <<>>
    /\ content_disposition' = <<>>
    /\ answer' = <<>>
    /\ filename' = <<>>
    /\ save_path' = <<>>
    /\ base_name' = <<>>
    /\ extension' = <<>>
    /\ counter' = 0
    /\ nchunks' = 0

\* ------------------------------------------------------------------- main

\* print("\n" + "-" * 30), before the try: a new turn of the loop, whose
\* output and network calls are counted from here; the last turn's url is
\* not read again before input() assigns it
ShowSeparator ==
    /\ loop = "Running" /\ pc = "top"
    /\ pc' = "prompt"
    /\ line' = <<>>
    /\ url' = <<>>
    /\ out' = <<>>
    /\ gets' = 0
    /\ UNCHANGED << loop, interrupted, disk, disk0, partial, calls >>
    /\ UNCHANGED locals

\* url = input(...).strip(), the operator typing one of choices; a URL that
\* would be fetched is typed only while fewer than limit fetches were made
ReadLineFrom(choices, limit) ==
    /\ loop = "Running" /\ pc = "prompt"
    /\ \E l \in choices :
          /\ \/ calls < limit
             \/ Strip(l) = <<>>
             \/ IsQuitCommand(Strip(l))
             \/ ~HasHttpScheme(Strip(l))
          /\ line' = l
          /\ url' = Strip(l)
    /\ pc' = "dispatch"
    /\ UNCHANGED << loop, interrupted, gets, out, disk, disk0, partial, calls >>
    /\ UNCHANGED locals

ReadLine == ReadLineFrom(Lines, MaxCalls)

\* input() raises EOFError: "except Exception" of main
ReadEOF ==
    /\ loop = "Running" /\ pc = "prompt"
    /\ out' = Append(out, Msg("Unexpected error in main loop"))
    /\ pc' = "top"
    /\ UNCHANGED << loop, line, url, interrupted, gets, disk, disk0, partial, calls >>
    /\ UNCHANGED locals

\* if url.lower() in ['quit', 'exit', 'q']: ... break
Quit ==
    /\ loop = "Running" /\ pc = "dispatch"
    /\ IsQuitCommand(url)
    /\ out' = Append(out, Msg("Thank you"))
    /\ loop' = "Terminated"
    /\ pc' = "exit"
    /\ UNCHANGED << line, url, interrupted, gets, disk, disk0, partial, calls >>
    /\ UNCHANGED locals

\* if not url: ... continue
RejectEmpty ==
    /\ loop = "Running" /\ pc = "dispatch"
    /\ ~IsQuitCommand(url)
    /\ url = <<>>
    /\ out' = Append(out, Msg("Please enter a valid URL"))
    /\ pc' = "top"
    /\ UNCHANGED << loop, line, url, interrupted, gets, disk, disk0, partial, calls >>
    /\ UNCHANGED locals

\* if not url.startswith(('http://', 'https://')): ... continue
RejectScheme ==
    /\ loop = "Running" /\ pc = "dispatch"
    /\ ~IsQuitCommand(url)
    /\ url # <<>>
    /\ ~HasHttpScheme(url)
    /\ out' = Append(out, Msg("URL must start with http"))
    /\ pc' = "top"
    /\ UNCHANGED << loop, line, url, interrupted, gets, disk, disk0, partial, calls >>
    /\ UNCHANGED locals

\* download_image(url, directory_name): entry, up to print("Connecting ...")
CallDownload ==
    /\ loop = "Running" /\ pc = "dispatch"
    /\ ~IsQuitCommand(url)
    /\ url # <<>>
    /\ HasHttpScheme(url)
    /\ out' = Append(out, Msg("Connecting"))
    /\ calls' = calls + 1
    /\ disk0' = disk
    /\ pc' = "get"
    /\ UNCHANGED << loop, line, url, interrupted, gets, disk, partial >>
    /\ UNCHANGED locals

\* download_image has returned; its value is dropped, the loop goes on
Return ==
    /\ loop = "Running" /\ pc = "returned"
    /\ pc' = "top"
    /\ disk0' = disk
    /\ ClearLocals
    /\ UNCHANGED << loop, line, url, interrupted, gets, out, disk, partial, calls >>

\* KeyboardInterrupt: caught by main inside the try (goodbye, break), not
\* caught at the separator print, which is outside it; either way main
\* returns and download_image's frame is gone
Interrupt ==
    /\ loop = "Running"
    /\ interrupted' = TRUE
    /\ loop' = "Terminated"
    /\ out' = Append(out, IF pc = "top" THEN Msg("Traceback")
                                       ELSE Msg("Operation cancelled by user"))
    /\ pc' = "exit"
    /\ line' = <<>>
    /\ url' = <<>>
    /\ ClearLocals
    /\ UNCHANGED << gets, disk, disk0, partial, calls >>

\* --------------------------------------------------------- download_image

\* An exception e raised inside the try: the matching except clause prints
\* its message and the function returns False
Caught(e) ==
    /\ raised' = e
    /\ out' = Append(out, Msg(ExceptClauses[HandlerOf(e)].kind))
    /\ ret' = "False"
    /\ pc' = "returned"

\* requests.get(...), raise_for_status() and the content-type check, the
\* server answering 2xx with the headers of one of responses
GetFrom(responses) ==
    /\ loop = "Running" /\ pc = "get"
    /\ gets' = gets + 1
    /\ \E r \in responses :
          /\ content_type' = r.content_type
          /\ content_disposition' = r.content_disposition
          /\ IF IsImageType(r.content_type)
             THEN /\ pc' = "name"
                  /\ out' = out
             ELSE /\ pc' = "confirm"
                  /\ out' = Append(out, Msg("Warning: not an image"))
    /\ UNCHANGED << loop, line, url, interrupted, ret, raised, answer, filename,
                    save_path, base_name, extension, counter, nchunks, disk,
                    disk0, partial, calls >>

Get == GetFrom(Responses)

\* requests.get(...) or raise_for_status() raises
GetFails ==
    /\ loop = "Running" /\ pc = "get"
    /\ gets' = gets + 1
    /\ \E e \in GetErrors : Caught(e)
    /\ UNCHANGED << loop, line, url, interrupted, content_type,
                    content_disposition, answer, filename, save_path, base_name,
                    extension, counter, nchunks, disk, disk0, partial, calls >>

\* confirm = input(...).lower(); if confirm != 'y': cancelled, return False
Confirm ==
    /\ loop = "Running" /\ pc = "confirm"
    /\ \E a \in Answers :
          /\ answer' = a
          /\ IF IsAffirmative(a)
             THEN /\ pc' = "name"
                  /\ UNCHANGED << out, ret >>
             ELSE /\ pc' = "returned"
                  /\ out' = Append(out, Msg("Download cancelled"))
                  /\ ret' = "False"
    /\ UNCHANGED << loop, line, url, interrupted, gets, raised, content_type,
                    content_disposition, filename, save_path, base_name,
                    extension, counter, nchunks, disk, disk0, partial, calls >>

\* input() at the confirmation prompt raises EOFError
ConfirmEOF ==
    /\ loop = "Running" /\ pc = "confirm"
    /\ Caught("EOFError")
    /\ UNCHANGED << loop, line, url, interrupted, gets, content_type,
                    content_disposition, answer, filename, save_path, base_name,
                    extension, counter, nchunks, disk, disk0, partial, calls >>

\* "Get filename"
ChooseName ==
    /\ loop = "Running" /\ pc = "name"
    /\ \E ts \in Timestamps :
          filename' = GetFilename(url, content_type, content_disposition, ts)
    /\ pc' = "sanitize"
    /\ UNCHANGED << loop, line, url, interrupted, gets, out, ret, raised,
                    content_type, content_disposition, answer, save_path,
                    base_name, extension, counter, nchunks, disk, disk0,
                    partial, calls >>

\* "Ensure filename is safe", then save_path, counter, base_name, extension
MakeSafe ==
    /\ loop = "Running" /\ pc = "sanitize"
    /\ \E ts \in Timestamps :
          /\ filename' = SafeFilename(filename, ts)
          /\ save_path' = Join(directory_name, filename')
          /\ base_name' = SplitExt(save_path')[1]
          /\ extension' = SplitExt(save_path')[2]
    /\ counter' = 1
    /\ pc' = "probe"
    /\ UNCHANGED << loop, line, url, interrupted, gets, out, ret, raised,
                    content_type, content_disposition, answer, nchunks, disk,
                    disk0, partial, calls >>

\* One turn of "while os.path.exists(save_path)"
Probe ==
    /\ loop = "Running" /\ pc = "probe"
    /\ PathExists(disk, save_path)
    /\ save_path' = SuffixedPath(base_name, counter, extension)
    /\ counter' = counter + 1
    /\ UNCHANGED << loop, pc, line, url, interrupted, gets, out, ret, raised,
                    content_type, content_disposition, answer, filename,
                    base_name, extension, nchunks, disk, disk0, partial, calls >>

\* The loop ends; print("Downloading ..."), open(save_path, 'wb')
Open ==
    /\ loop = "Running" /\ pc = "probe"
    /\ ~PathExists(disk, save_path)
    /\ out' = Append(out, [Msg("Downloading") EXCEPT !.name = filename])
    /\ disk' = (save_path :> <<>>) @@ disk
    /\ pc' = "stream"
    /\ UNCHANGED << loop, line, url, interrupted, gets, ret, raised,
                    content_type, content_disposition, answer, filename,
                    save_path, base_name, extension, counter, nchunks, disk0,
                    partial, calls >>

\* open(save_path, 'wb') raises OSError: no file is made
OpenFails ==
    /\ loop = "Running" /\ pc = "probe"
    /\ ~PathExists(disk, save_path)
    /\ raised' = "OSError"
    /\ out' = Append(Append(out, [Msg("Downloading") EXCEPT !.name = filename]),
                     Msg(ExceptClauses[HandlerOf("OSError")].kind))
    /\ ret' = "False"
    /\ pc' = "returned"
    /\ UNCHANGED << loop, line, url, interrupted, gets, content_type,
                    content_disposition, answer, filename, save_path, base_name,
                    extension, counter, nchunks, disk, disk0, partial, calls >>

\* for chunk in response.iter_content(...): if chunk: file.write(chunk)
WriteChunk ==
    /\ loop = "Running" /\ pc = "stream"
    /\ nchunks < MaxChunks
    /\ nchunks' = nchunks + 1
    /\ \E chunk \in Chunks :
          disk' = IF chunk # <<>>
                  THEN [disk EXCEPT ![save_path] = @ \o chunk]
                  ELSE disk
    /\ UNCHANGED << loop, pc, line, url, interrupted, gets, out, ret, raised,
                    content_type, content_disposition, answer, filename,
                    save_path, base_name, extension, counter, disk0, partial,
                    calls >>

\* CloseOnError with the unfinished file removed
CloseOnError_Unlink(d, path) == [p \in (DOMAIN d) \ {path} |-> d[p]]

\* No path removed: what becomes of the directory when an exception leaves
\* "with open(save_path, 'wb') as file" and an except clause handles it; the
\* file is closed, and neither the clause nor anything after it removes it
CloseOnError(d, path) == d

\* iter_content or file.write raises
StreamFails ==
    /\ loop = "Running" /\ pc = "stream"
    /\ \E e \in StreamErrors : Caught(e)
    /\ disk' = CloseOnError(disk, save_path)
    /\ partial' = [path |-> save_path, content |-> disk[save_path], call |-> calls]
    /\ UNCHANGED << loop, line, url, interrupted, gets, content_type,
                    content_disposition, answer, filename, save_path, base_name,
                    extension, counter, nchunks, disk0, calls >>

\* The body ends: os.path.getsize, the two report lines, return True
Finish ==
    /\ loop = "Running" /\ pc = "stream"
    /\ out' = out \o << [Msg("Successfully saved") EXCEPT
                            !.name = filename, !.size = Len(disk[save_path])],
                        [Msg("Location") EXCEPT !.path = save_path] >>
    /\ ret' = "True"
    /\ pc' = "returned"
    /\ UNCHANGED << loop, line, url, interrupted, gets, raised, content_type,
                    content_disposition, answer, filename, save_path, base_name,
                    extension, counter, nchunks, disk, disk0, partial, calls >>

\* ---------------------------------------------------------- specification

Common ==
    \/ ShowSeparator
    \/ ReadEOF
    \/ Quit
    \/ RejectEmpty
    \/ RejectScheme
    \/ CallDownload
    \/ Return
    \/ Interrupt
    \/ GetFails
    \/ Confirm
    \/ ConfirmEOF
    \/ ChooseName
    \/ MakeSafe
    \/ Probe
    \/ Open
    \/ OpenFails
    \/ WriteChunk
    \/ StreamFails
    \/ Finish

Next ==
    \/ ReadLine
    \/ Get
    \/ Common

\* The loop over repeated downloads into one directory
Spec == Init /\ [][Next]_vars

NameReadLine == ReadLineFrom(NameLines, MaxNameCalls)

NameGet == GetFrom(NameResponses)

NameNext ==
    \/ NameReadLine
    \/ NameGet
    \/ Common

\* One download, over the wider range of URLs and headers
NameSpec == Init /\ [][NameNext]_vars

\* ------------------------------------------------------------ properties

DownloadPcs == {"get", "confirm", "name", "sanitize", "probe", "stream", "returned"}

\* s equals the lower-case word w up to the case of its letters
SameIgnoringCase(s, w) ==
    /\ Len(s) = Len(w)
    /\ \A i \in 1..Len(s) :
          \/ s[i] = w[i]
          \/ \E k \in 1..26 : w[i] = LowerLetters[k] /\ s[i] = UpperLetters[k]

QuitWord(s) ==
    \E w \in {<<"q","u","i","t">>, <<"e","x","i","t">>, <<"q">>} : SameIgnoringCase(s, w)

HttpUrl(s) ==
    \/ (Len(s) >= 7 /\ SubSeq(s, 1, 7) = <<"h","t","t","p",":","/","/">>)
    \/ (Len(s) >= 8 /\ SubSeq(s, 1, 8) = <<"h","t","t","p","s",":","/","/">>)

\* The line with the blanks and tabs at its two ends removed
Trimmed(l) ==
    IF \A i \in 1..Len(l) : l[i] \in {" ", "\t"} THEN <<>>
    ELSE LET first == CHOOSE i \in 1..Len(l) :
                         l[i] \notin {" ", "\t"} /\ \A j \in 1..(i - 1) : l[j] \in {" ", "\t"}
             last == CHOOSE i \in 1..Len(l) :
                         l[i] \notin {" ", "\t"} /\ \A j \in (i + 1)..Len(l) : l[j] \in {" ", "\t"}
         IN  SubSeq(l, first, last)

\* os.path.basename(p) on POSIX
Basename(p) == From(p, RFind(p, "/") + 1)

\* The working directory of the process, for os.path.abspath
Cwd == <<"/","w">>

\* os.path.abspath(p) of a path without "." or ".." components
AbsPath(p) == IF p # <<>> /\ p[1] = "/" THEN p ELSE Join(Cwd, p)

Kinds(msgs) == {msgs[i].kind : i \in DOMAIN msgs}

FailureKinds == {ExceptClauses[i].kind : i \in DOMAIN ExceptClauses}

\* C1: during and after every download_image call, each file that was in the
\* directory when the call began is still there with the content it had, and
\* the path the call opens for writing is not the path of any such file.
C1_NoOverwrite ==
    /\ \A p \in DOMAIN disk0 : p \in DOMAIN disk /\ disk[p] = disk0[p]
    /\ (pc \in {"stream", "returned"} /\ save_path # <<>>) => save_path \notin DOMAIN disk0

C1_Witness ==
    /\ pc = "returned" /\ ret = "True"
    /\ counter > 1
    /\ Join(directory_name, filename) \in DOMAIN disk0
    /\ disk0[Join(directory_name, filename)] # <<>>
    /\ disk[save_path] # <<>>

\* C2: once the search loop has ended, the path written is X (directory plus
\* filename) when X was free, and otherwise stem_n + extension for the least
\* n >= 1 whose path was free; while the loop runs, the suffixes tried so far
\* are no more than the files of the directory, so the loop ends.
C2_CollisionResolution ==
    LET X == Join(directory_name, filename)
        stem == SplitExt(X)[1]
        ext == SplitExt(X)[2]
        Cand(n) == stem \o <<"_">> \o Decimal(n) \o ext
    IN  /\ pc = "probe" => counter - 1 <= Cardinality(DOMAIN disk)
        /\ pc = "stream" =>
              IF X \notin DOMAIN disk0
              THEN save_path = X
              ELSE \E n \in 1..(Cardinality(DOMAIN disk0) + 1) :
                      /\ save_path = Cand(n)
                      /\ Cand(n) \notin DOMAIN disk0
                      /\ \A m \in 1..(n - 1) : Cand(m) \in DOMAIN disk0

C2_Witness ==
    /\ pc = "stream"
    /\ counter = 3
    /\ save_path = Join(directory_name, <<"c","a","t","_","2",".","p","n","g">>)
    /\ Join(directory_name, <<"c","a","t",".","p","n","g">>) \in DOMAIN disk0
    /\ Join(directory_name, <<"c","a","t","_","1",".","p","n","g">>) \in DOMAIN disk0

\* The message each failure category has of its own in download_image
OwnMessage(e) ==
    CASE e \in {"ConnectionError", "ChunkedEncodingError"} -> "Network error"
      [] e = "HTTPError" -> "HTTP error"
      [] e = "Timeout" -> "Request timed out"
      [] e = "TooManyRedirects" -> "Too many redirects"
      [] e = "OSError" -> "File system error"
      [] OTHER -> "Unexpected error"

\* C3: when download_image has caught a failure, the message it printed is
\* the one of that failure's category (network, HTTP status, timeout, too
\* many redirects, file system, unclassified), which no other category
\* shares, and it returns False.
C3_DistinctMessages ==
    (pc = "returned" /\ raised # "none") =>
        /\ ret = "False"
        /\ out[Len(out)].kind = OwnMessage(raised)

\* C4: download_image is entered, and a network call made, only for a line
\* that trimmed is non-empty, is not quit/exit/q in any case and starts with
\* http:// or https://; a line that is empty or starts otherwise gets a
\* warning, no network call and no file, and the loop goes to its next turn.
C4_OnlyHttpUrlsFetched ==
    [][ /\ ((pc' \in DownloadPcs /\ pc = "dispatch") \/ gets' > gets) =>
              /\ url = Trimmed(line)
              /\ url # <<>>
              /\ ~QuitWord(url)
              /\ HttpUrl(url)
        /\ ( /\ pc = "dispatch"
             /\ ~interrupted'
             /\ ~QuitWord(Trimmed(line))
             /\ (Trimmed(line) = <<>> \/ ~HttpUrl(Trimmed(line))) ) =>
              /\ Kinds(out') \cap {"Please enter a valid URL", "URL must start with http"} # {}
              /\ gets' = 0
              /\ disk' = disk
              /\ loop' = "Running"
              /\ pc' = "top"
      ]_vars

C4_Witness ==
    /\ pc = "top"
    /\ loop = "Running"
    /\ line = <<"f","t","p",":","/","/","h","/","c","a","t",".","p","n","g">>
    /\ Kinds(out) = {"URL must start with http"}
    /\ calls > 0

\* C5: the loop ends exactly in a step where the trimmed input is quit, exit
\* or q in any case, or where an interrupt arrives (at any statement); after
\* download_image has returned, whatever it returned, and after an
\* unexpected failure at the prompt, the loop is Running and prompts again.
C5_TerminatesOnlyOnQuitOrInterrupt ==
    [][ /\ (loop = "Running" /\ loop' = "Terminated") =>
              \/ (pc = "dispatch" /\ QuitWord(Trimmed(line)))
              \/ (interrupted' /\ ~interrupted)
        /\ (pc = "dispatch" /\ QuitWord(Trimmed(line))) => loop' = "Terminated"
        /\ (interrupted' /\ ~interrupted) => loop' = "Terminated"
        /\ (pc = "returned" /\ ~interrupted') => (loop' = "Running" /\ pc' = "top")
        /\ ("Unexpected error in main loop" \in Kinds(out') /\ ~interrupted') =>
              (loop' = "Running" /\ pc' \in {"top", "prompt"})
        /\ (pc = "top" /\ ~interrupted') => (loop' = "Running" /\ pc' = "prompt")
      ]_vars

C5_Witness ==
    /\ loop = "Terminated"
    /\ interrupted = FALSE
    /\ line = <<" ","Q"," ">>
    /\ calls = MaxCalls
    /\ partial.path # <<>>

\* C6: a response whose content-type does not start with image/ leads to the
\* confirmation prompt, at which no filename is resolved and no file opened;
\* any answer but y or Y prints the cancellation and none of the failure
\* messages, changes no file, reads no chunk of the body, and returns.
C6_CancelWithoutDownload ==
    [][ /\ (pc = "get" /\ pc' \in {"name", "confirm"}) =>
              (pc' = "confirm" <=>
                  ~(Len(content_type') >= 6 /\ SubSeq(content_type', 1, 6) = <<"i","m","a","g","e","/">>))
        /\ pc = "confirm" =>
              /\ filename = <<>> /\ save_path = <<>>
              /\ disk = disk0
              /\ nchunks = 0
        /\ ( /\ pc = "confirm"
             /\ ~interrupted'
             /\ raised' = "none"
             /\ answer' \notin {<<"y">>, <<"Y">>} ) =>
              /\ pc' = "returned"
              /\ out'[Len(out')].kind = "Download cancelled"
              /\ Kinds(out') \cap FailureKinds = {}
              /\ disk' = disk
              /\ save_path' = <<>>
              /\ nchunks' = 0
              /\ gets' = gets
      ]_vars

C6_Witness ==
    /\ pc = "returned"
    /\ answer = <<"y","e","s">>
    /\ ret = "False"
    /\ raised = "none"
    /\ "Download cancelled" \in Kinds(out)

\* C7: when download_image returns True, the name it reported as saved is the
\* basename of the path it wrote, the size it reported is that file's size,
\* and the location it reported is that file's absolute path.
C7_ReportMatchesFile ==
    (pc = "returned" /\ ret = "True") =>
        /\ \E i \in DOMAIN out :
              /\ out[i].kind = "Successfully saved"
              /\ out[i].name = Basename(save_path)
              /\ out[i].size = Len(disk[save_path])
        /\ \E i \in DOMAIN out :
              /\ out[i].kind = "Location"
              /\ out[i].path = AbsPath(save_path)

\* C8: a failure after the file was opened makes download_image return False
\* after its one network call, with the file still at the resolved path
\* holding what was written; the file stays as it is from then on, and a
\* later download whose name resolves to that path is written under a
\* collision suffix.
C8_PartialFileKept ==
    /\ (pc = "returned" /\ raised # "none" /\ nchunks > 0) =>
          /\ ret = "False"
          /\ gets = 1
          /\ partial.path = save_path /\ partial.call = calls
    /\ (pc = "returned" /\ partial.call = calls /\ partial.path # <<>>) =>
          (ret = "False" /\ gets = 1)
    /\ partial.path # <<>> =>
          /\ partial.path \in DOMAIN disk
          /\ disk[partial.path] = partial.content
    /\ ( /\ partial.path # <<>> /\ partial.call < calls
         /\ pc = "stream"
         /\ Join(directory_name, filename) = partial.path ) =>
          /\ save_path # partial.path
          /\ counter > 1

C8_Witness ==
    /\ pc = "stream"
    /\ partial.call < calls
    /\ partial.content # <<>>
    /\ Join(directory_name, filename) = partial.path
    /\ save_path = SplitExt(partial.path)[1] \o <<"_", "1">> \o SplitExt(partial.path)[2]
    /\ nchunks > 0

\* C9: with no content-disposition filename and a content type that implies
\* the extension E, the name is the URL's candidate when that ends in E,
\* else the candidate with what starts at its last "." replaced by E, else
\* (no "." in it) the candidate followed by E; with a content-disposition
\* filename the name does not depend on the content type.
C9_ExtensionReplaced ==
    pc = "sanitize" =>
        LET cd == content_disposition
            E == GuessExtension(BeforeFirst(content_type, ";"))
        IN  IF ContainsSub(cd, <<"f","i","l","e","n","a","m","e","=">>)
            THEN filename = StripChars(AfterLast(cd, <<"f","i","l","e","n","a","m","e","=">>), {"\"", "'"})
            ELSE E # <<>> =>
                   \E ts \in Timestamps :
                      LET cand == extract_filename(url, ts)
                      IN  filename =
                            IF EndsWith(cand, E) THEN cand
                            ELSE IF Contains(cand, ".")
                                 THEN SubSeq(cand, 1, RFind(cand, ".") - 1) \o E
                                 ELSE cand \o E

\* The characters str.isalnum() accepts, with the four the code adds
SafeChars == AsciiAlnum \cup NonAsciiAlnum \cup {" ", ".", "_", "-"}

\* C10 as amended: the sanitized filename is non-empty, does not end in
\* whitespace, and holds only characters that are alphanumeric as
\* str.isalnum() has it (letters and digits outside ASCII included) or one
\* of space, ".", "_", "-".
C10_SanitizedName ==
    (pc \in {"probe", "stream"} \/ (pc = "returned" /\ save_path # <<>>)) =>
        /\ filename # <<>>
        /\ filename[Len(filename)] \notin Whitespace
        /\ \A i \in 1..Len(filename) : filename[i] \in SafeChars

C10_Witness ==
    /\ pc = "probe"
    /\ Contains(url, "%")
    /\ Contains(filename, EAcute)
    /\ Contains(filename, " ")
    /\ ~Contains(filename, "$")

\* C10 as stated: the sanitized filename is non-empty, does not end in
\* whitespace, and holds only characters of [A-Za-z0-9 ._-].
C10_AsciiOnly ==
    (pc \in {"probe", "stream"} \/ (pc = "returned" /\ save_path # <<>>)) =>
        /\ filename # <<>>
        /\ filename[Len(filename)] \notin Whitespace
        /\ \A i \in 1..Len(filename) :
              filename[i] \in AsciiAlnum \cup {" ", ".", "_", "-"}

====
